---- MODULE Spec2Model ----
(***************************************************************************)
(* BibleHub lexicon importer: the breadth-first crawl of Crawler.run over  *)
(* the Fetcher, the extractor, the Writer and the vault.                   *)
(*                                                                         *)
(* A Strong's id "G12" is the record [lang |-> "G", n |-> 12].  A page of  *)
(* the site is what the extractor reads off it: the numbers after "See",   *)
(* the numbers cited in the HELPS / Thayer / definition blocks, the        *)
(* "Original Word" (a single Greek or Hebrew word), the other Greek or     *)
(* Hebrew words of the blocks and the interlinear verse links.             *)
(***************************************************************************)
EXTENDS Integers, Sequences, FiniteSets, TLC

\* ---------------------------------------------------------------- bounds
MaxDepthBound == 2
MaxNodesBound == 4
MaxFailures == 2
MaxPreexisting == 1

\* ------------------------------------------------------------- utilities
Range(s) == {s[i] : i \in DOMAIN s}

Min(a, b) == IF a < b THEN a ELSE b

RECURSIVE uniq(_)
uniq(arr) ==
  IF arr = <<>> THEN <<>>
  ELSE <<Head(arr)>> \o uniq(SelectSeq(Tail(arr), LAMBDA y : y # Head(arr)))

\* The sequence s without the elements of the set S (Array.filter).
RECURSIVE Without(_, _)
Without(s, S) ==
  IF s = <<>> THEN <<>>
  ELSE (IF Head(s) \in S THEN <<>> ELSE <<Head(s)>>) \o Without(Tail(s), S)

\* --------------------------------------------------------- normalize.ts
Id(l, n) == [lang |-> l, n |-> n]

langFromStrong(strong) == IF strong.lang = "G" THEN "greek" ELSE "hebrew"

\* normalizeBareNumber that reads every number as a Greek one.
normalizeBareNumberGreek(n, langHint) == Id("G", n)

\* normalizeStrongId on a bare number: the language hint gives the prefix.
normalizeBareNumber(n, langHint) ==
  Id(IF langHint = "greek" THEN "G" ELSE "H", n)

strongsUrl(strong) ==
  [kind |-> "strongs", lang |-> langFromStrong(strong), n |-> strong.n,
   verse |-> "none"]

nasbUrl(verse) == [kind |-> "nasb", lang |-> "none", n |-> 0, verse |-> verse]

\* ------------------------------------------------------------ extractor
NoLemma == "none"

parseStrongsPage(strong, page) ==
  LET lang    == langFromStrong(strong)
      seeAlso == [i \in 1..Len(page.see) |-> normalizeBareNumber(page.see[i], lang)]
      refs    == [i \in 1..Len(page.rel) |-> normalizeBareNumber(page.rel[i], lang)]
      related == Without(uniq(refs), {strong})
  IN  [strong |-> strong,
       lemma  |-> page.lemma,
       tokens |-> page.tokens \cup (IF page.lemma = NoLemma THEN {} ELSE {page.lemma}),
       links  |-> [see_also        |-> uniq(seeAlso),
                   related_strongs |-> related,
                   topical         |-> <<>>,
                   scripture       |-> uniq(page.verses)]]

NoId == Id("-", 0)

NoEntry ==
  [strong |-> NoId, lemma |-> NoLemma, tokens |-> {},
   links |-> [see_also |-> <<>>, related_strongs |-> <<>>,
              topical |-> <<>>, scripture |-> <<>>]]

\* -------------------------------------------------------------- crawler
\* nextNodes: the link lists of the followed edge types, in recipe order,
\* concatenated and deduplicated.
RECURSIVE nextNodesRaw(_, _)
nextNodesRaw(entry, edgeTypes) ==
  IF edgeTypes = <<>> THEN <<>>
  ELSE LET et == edgeTypes[Len(edgeTypes)]
       IN  nextNodesRaw(entry, SubSeq(edgeTypes, 1, Len(edgeTypes) - 1))
           \o (IF et = "see_also" THEN entry.links.see_also ELSE <<>>)
           \o (IF et = "related_strongs" THEN entry.links.related_strongs ELSE <<>>)
           \o (IF et = "topical" THEN entry.links.topical ELSE <<>>)

\* nextNodes without the Set.
nextNodesRepeated(entry, edgeTypes) == nextNodesRaw(entry, edgeTypes)

nextNodes(entry, edgeTypes) == uniq(nextNodesRaw(entry, edgeTypes))

\* String.includes on a note's basename.  A basename is the id alone
\* ("G12", the placeholder and the "{{strong}}" title) or the id followed by
\* " - lemma (transliteration)"; the letter occurs once, at the front, so
\* "G1" occurs in it exactly when the letters agree and the decimal digits
\* of 1 are a prefix of the decimal digits of 12.
RECURSIVE DigitPrefix(_, _)
DigitPrefix(m, n) ==
  IF m = n THEN TRUE
  ELSE IF n < 10 THEN FALSE
  ELSE DigitPrefix(m, n \div 10)

basenameIncludes(name, strong) ==
  name.id.lang = strong.lang /\ DigitPrefix(strong.n, name.id.n)

\* The notes under the root folder whose basename contains the id.
findExistingByStrongIdFallback(files, strong) ==
  {f \in DOMAIN files : basenameIncludes(f, strong)}

\* LoopGuard with the budget test off by one.
LoopGuardInclusive(queue, count, maxNodes) == Len(queue) > 0 /\ count <= maxNodes

\* The loop condition of run.
LoopGuard(queue, count, maxNodes) == Len(queue) > 0 /\ count < maxNodes

\* MarkSeen that forgets to add the id.
MarkSeenForgets(visited, strong) == visited

\* seen.add(strong)
MarkSeen(visited, strong) == visited \cup {strong}

\* DepthAllows that lets a node at maxDepth enqueue.
DepthAllowsInclusive(depth, maxDepth) == depth <= maxDepth

\* The guard of the enqueue block.
DepthAllows(depth, maxDepth) == depth < maxDepth

\* The targets pushed for one node: those of nextNodes not yet seen.
Targets(e, edgeTypes, visited, depth) ==
  LET next == Without(nextNodes(e, edgeTypes), visited)
  IN  [i \in 1..Len(next) |-> [strong |-> next[i], depth |-> depth + 1]]

\* Enqueue at the front of the queue (unshift).
EnqueueFront(queue, items) == items \o queue

\* q.push of each target, in order.
Enqueue(queue, items) == queue \o items

\* CountSkipped that bumps the wrong counter.
CountSkippedAsUpdated(r) == [r EXCEPT !.updated = @ + 1]

\* res.skipped++
CountSkipped(r) == [r EXCEPT !.skipped = @ + 1]

\* RecordError that swallows the error.
RecordErrorSwallowed(r, strong) == r

\* The catch block: res.errors.push({ id, error }).
RecordError(r, strong) ==
  [r EXCEPT !.errors = Append(@, [id |-> strong, error |-> "message"])]

\* The lemma aliases applyLemmaLinks goes on to ensure.
LemmasFound(e, index) == {t \in e.tokens : index[t] # NoId}

AliasWork(e, index, mode) ==
  IF mode = "all" /\ LemmasFound(e, index) # {} THEN LemmasFound(e, index)
  ELSE IF e.lemma # NoLemma THEN {e.lemma}
  ELSE {}

\* --------------------------------------------------------------- writer
\* buildTitle / filePath: the note name the title pattern gives the entry.
buildTitle(e, pattern) == [id |-> e.strong, full |-> (pattern = "full")]

\* renderNew, as far as the crawl reads a note back: the strong and lemma
\* lines of the header; the aliases are the id and the transliteration.
renderNew(e) ==
  [strong |-> e.strong, lemma |-> e.lemma, aliases |-> {}, kind |-> "full"]

\* The placeholder ensureAliasForStrong creates.
placeholderNote(strong, lemma) ==
  [strong |-> strong, lemma |-> lemma, aliases |-> {lemma}, kind |-> "stub"]

addAliasToFrontmatter(doc, alias) ==
  IF alias \in doc.aliases THEN doc
  ELSE [doc EXCEPT !.aliases = @ \cup {alias}]

\* ------------------------------------------------- writer: the note text
\* A note is the sequence of its lines (the text is the lines joined by a
\* line feed).  A line is a heading ("## ..."), an import marker
\* ("<!-- imported: key -->") or any other text.
Line(kind, v) == [kind |-> kind, v |-> v]

Heading(title) == Line("heading", title)

Marker(key) == Line("marker", key)

Text(s) == Line("text", s)

Blank == Text("")

Rule == Text("---")

RECURSIVE trim(_)
\* String.trim on a block: the blank lines at either end go.
trim(block) ==
  IF block = <<>> THEN <<>>
  ELSE IF Head(block) = Blank THEN trim(Tail(block))
  ELSE IF block[Len(block)] = Blank THEN trim(SubSeq(block, 1, Len(block) - 1))
  ELSE block

\* sectionOrder and sectionTitles of renderNew, for the sections modelled.
sectionOrder == <<"lexical_summary", "helps">>

sectionTitles ==
  [k \in Range(sectionOrder) |->
     IF k = "lexical_summary" THEN "Lexical Summary" ELSE "HELPS Word-studies"]

\* linkifyScriptureRefs, line by line: a verse display that a line holds
\* is wrapped in [[ ]].
linkifyScriptureRefs(block, refs) ==
  [i \in 1..Len(block) |->
     IF block[i].kind = "text" /\ block[i].v \in Range(refs)
     THEN Text("[[" \o block[i].v \o "]]")
     ELSE block[i]]

renderSection(title, key, content) ==
  LET block == trim(content)
  IN  <<Heading(title), Marker(key)>>
        \o (IF block # <<>> THEN block ELSE <<Blank>>)
        \o <<Blank, Rule, Blank>>

RECURSIVE renderSections(_, _, _)
\* sectionOrder.filter(included).flatMap(renderSection)
renderSections(keys, included, blocks) ==
  IF keys = <<>> THEN <<>>
  ELSE (IF Head(keys) \in included
        THEN renderSection(sectionTitles[Head(keys)], Head(keys),
                           blocks[Head(keys)])
        ELSE <<>>)
       \o renderSections(Tail(keys), included, blocks)

\* The metadata header of a new note; its closing line is followed by
\* the title line.
yamlHeader == <<Rule, Text("strong: id"), Rule>>

\* Writer.renderNew: header, title lines, the included sections in
\* sectionOrder with their blocks linkified, and the outbound links.
renderNewText(e, r) ==
  LET blocks ==
        IF r.linkScripture /\ e.scripture # <<>>
        THEN [k \in DOMAIN e.blocks |->
                linkifyScriptureRefs(e.blocks[k], e.scripture)]
        ELSE e.blocks
  IN  yamlHeader
        \o <<Text("# title"), Blank, Text("> source"), Blank, Rule, Blank>>
        \o renderSections(sectionOrder, Range(r.includeSections), blocks)
        \o <<Blank, Rule, Blank, Heading("Outbound Links"), Blank,
             Text("links"), Blank>>

\* The first line of doc that is the marker of key, 0 when there is none
\* (doc.indexOf(marker)).
MarkerAt(doc, key) ==
  LET at == {i \in 1..Len(doc) : doc[i] = Marker(key)}
  IN  IF at = {} THEN 0 ELSE CHOOSE i \in at : \A j \in at : i <= j

\* A line on which the block after a marker ends: the next heading
\* (/\n##\s+/) or the next import marker.
IsBoundary(line) == line.kind \in {"heading", "marker"}

\* The end a block runs to when no boundary follows: past every line.
SpanEndNever(doc, idx) == Len(doc) + 1

\* The line the block after the marker at idx ends before: the first
\* boundary line after idx, or past the last line when there is none.
SpanEnd(doc, idx) ==
  LET ends == {j \in (idx + 1)..Len(doc) : IsBoundary(doc[j])}
  IN  IF ends = {} THEN Len(doc) + 1
      ELSE CHOOSE j \in ends : \A k \in ends : j <= k

replaceImportedBlock(doc, key, replacement) ==
  LET idx == MarkerAt(doc, key)
      rep == trim(replacement)
  IN  IF idx = 0 THEN doc
      ELSE SubSeq(doc, 1, idx)
             \o (IF rep # <<>> THEN rep ELSE <<Blank>>)
             \o <<Blank>>
             \o SubSeq(doc, SpanEnd(doc, idx), Len(doc))

RECURSIVE mergeSections(_, _, _)
\* The loop of mergeIntoFile over recipe.includeSections, in recipe order,
\* with the blocks of the entry as they are (not linkified).
mergeSections(text, sections, blocks) ==
  IF sections = <<>> THEN text
  ELSE mergeSections(replaceImportedBlock(text, Head(sections),
                                          blocks[Head(sections)]),
                     Tail(sections), blocks)

mergeIntoFile(original, e, r) ==
  mergeSections(original, r.includeSections, e.blocks)

\* ensureFolder: the folder is created when adapter.exists says no.
ensureFolderAlways(folderExists) == <<"createFolder">>

ensureFolder(folderExists) ==
  IF folderExists THEN <<>> ELSE <<"createFolder">>

\* -------------------------------------------- normalize.ts, on text
\* A text is the sequence of its characters.
DigitChars == <<"0", "1", "2", "3", "4", "5", "6", "7", "8", "9">>

IsDigit(c) == c \in Range(DigitChars)

\* \s
IsSpace(c) == c = " "

\* \w: letters and digits; the other characters of the texts modelled
\* are the space and the punctuation of a URL.
IsWord(c) == c \notin {" ", ".", "/", ":"}

\* The letters the texts modelled hold in upper case.
Lower(c) == IF c = "G" THEN "g" ELSE IF c = "H" THEN "h" ELSE c

Upper(c) == IF c = "g" THEN "G" ELSE IF c = "h" THEN "H" ELSE c

LowerAll(s) == [i \in 1..Len(s) |-> Lower(s[i])]

RECURSIVE trimChars(_)
\* String.trim
trimChars(s) ==
  IF s = <<>> THEN s
  ELSE IF IsSpace(Head(s)) THEN trimChars(Tail(s))
  ELSE IF IsSpace(s[Len(s)]) THEN trimChars(SubSeq(s, 1, Len(s) - 1))
  ELSE s

RECURSIVE parseInt(_)
\* parseInt(digits, 10)
parseInt(digits) ==
  IF digits = <<>> THEN 0
  ELSE 10 * parseInt(SubSeq(digits, 1, Len(digits) - 1))
         + (CHOOSE d \in 0..9 : DigitChars[d + 1] = digits[Len(digits)])

RECURSIVE NumberText(_)
\* String(n)
NumberText(n) ==
  IF n < 10 THEN <<DigitChars[n + 1]>>
  ELSE NumberText(n \div 10) \o <<DigitChars[(n % 10) + 1]>>

\* The text of an id: the prefix and the number in decimal.
FormatId(strong) == <<strong.lang>> \o NumberText(strong.n)

\* The last character of the run of digits that starts at i; i - 1 when
\* no digit is at i.
RunEnd(s, i) ==
  LET stops == {j \in i..Len(s) : ~IsDigit(s[j])}
  IN  IF stops = {} THEN Len(s)
      ELSE (CHOOSE j \in stops : \A k \in stops : j <= k) - 1

\* The first character from i on that is not a space.
SkipSpace(s, i) ==
  LET stops == {j \in i..Len(s) : ~IsSpace(s[j])}
  IN  IF stops = {} THEN Len(s) + 1
      ELSE CHOOSE j \in stops : \A k \in stops : j <= k

\* \b before the word character at i, and after the word character at j.
WordStart(s, i) == i = 1 \/ ~IsWord(s[i - 1])

WordEnd(s, j) == j = Len(s) \/ ~IsWord(s[j + 1])

RECURSIVE LeadingZeros(_)
LeadingZeros(run) ==
  IF run = <<>> \/ Head(run) # "0" THEN 0 ELSE 1 + LeadingZeros(Tail(run))

\* [0-9]{1,5}
MaxDigits == 5

\* The digits ([0-9]{1,5}) captures from a run once 0* has taken the
\* zeros it can while leaving a digit.
Captured(run) ==
  SubSeq(run, Min(LeadingZeros(run), Len(run) - 1) + 1, Len(run))

\* 0*([0-9]{1,5})\b matches at i: the run of digits at i is taken whole,
\* since \b does not hold between two digits.
NumberAt(s, i) ==
  LET e == RunEnd(s, i)
  IN  /\ e >= i
      /\ Len(Captured(SubSeq(s, i, e))) <= MaxDigits
      /\ WordEnd(s, e)

\* The least member of a set of positions, 0 for none.
First(P) == IF P = {} THEN 0 ELSE CHOOSE i \in P : \A j \in P : i <= j

\* normalizeStrongId(raw, langHint); langHint "none" is the hint left
\* out, and NoId is null.
normalizeStrongId(raw, langHint) ==
  LET s  == trimChars(raw)
      m1 == First({i \in 1..Len(s) :
                     /\ WordStart(s, i)
                     /\ Lower(s[i]) \in {"g", "h"}
                     /\ NumberAt(s, SkipSpace(s, i + 1))})
      m2 == First({i \in 1..Len(s) :
                     IsDigit(s[i]) /\ WordStart(s, i) /\ NumberAt(s, i)})
      Num(i) == parseInt(SubSeq(s, i, RunEnd(s, i)))
  IN  IF m1 # 0 THEN Id(Upper(s[m1]), Num(SkipSpace(s, m1 + 1)))
      ELSE IF m2 # 0 /\ langHint # "none"
      THEN Id(IF langHint = "greek" THEN "G" ELSE "H", Num(m2))
      ELSE NoId

\* The pieces of a BibleHub URL.
Https == <<"h", "t", "t", "p", "s", ":", "/", "/">>

Host == <<"b", "i", "b", "l", "e", "h", "u", "b", ".", "c", "o", "m", "/">>

StrongsDir == <<"s", "t", "r", "o", "n", "g", "s", "/">>

Greek == <<"g", "r", "e", "e", "k">>

Hebrew == <<"h", "e", "b", "r", "e", "w">>

Htm == <<".", "h", "t", "m">>

\* pat is in s at i, whatever the case.
HasAt(s, i, pat) ==
  /\ i + Len(pat) - 1 <= Len(s)
  /\ LowerAll(SubSeq(s, i, i + Len(pat) - 1)) = LowerAll(pat)

\* base(greek|hebrew)\/(\d+)\.htm, case-insensitive, matches at i with
\* the language lang.
UrlAt(s, i, base, lang) ==
  LET d == i + Len(base) + Len(lang) + 1
  IN  /\ HasAt(s, i, base \o lang \o <<"/">>)
      /\ RunEnd(s, d) >= d
      /\ HasAt(s, RunEnd(s, d) + 1, Htm)

\* The id the first match of the URL pattern with base gives, NoId when
\* the pattern does not match.
UrlMatch(s, base) ==
  LET at == First({i \in 1..Len(s) :
                     UrlAt(s, i, base, Greek) \/ UrlAt(s, i, base, Hebrew)})
      lang == IF UrlAt(s, at, base, Greek) THEN Greek ELSE Hebrew
      d == at + Len(base) + Len(lang) + 1
  IN  IF at = 0 THEN NoId
      ELSE Id(IF lang = Greek THEN "G" ELSE "H",
              parseInt(SubSeq(s, d, RunEnd(s, d))))

\* The seed of the import command to an id: a Strong's URL, a lexicon
\* URL, an id, or a bare number of one to five digits taken as Greek.
normalizeSeedToStrong(seedText) ==
  LET s  == trimChars(seedText)
      m  == UrlMatch(s, Host \o StrongsDir)
      m2 == UrlMatch(s, Host)
      m3 == normalizeStrongId(s, "none")
      n  == First({i \in 1..Len(s) :
                     /\ IsDigit(s[i]) /\ WordStart(s, i)
                     /\ RunEnd(s, i) - i + 1 <= MaxDigits
                     /\ WordEnd(s, RunEnd(s, i))})
  IN  IF m # NoId THEN m
      ELSE IF m2 # NoId THEN m2
      ELSE IF m3 # NoId THEN m3
      ELSE IF n # 0 THEN normalizeStrongId(SubSeq(s, n, RunEnd(s, n)), "greek")
      ELSE NoId

\* ------------------------------------------------------ inputs of a run
Lemmas == {"L1", "L2"}
VerseKeys == {"v1", "v2"}
NumPool == {1, 2, 3, 4, 12}

Page(see, rel, lemma, tokens, verses) ==
  [see |-> see, rel |-> rel, lemma |-> lemma, tokens |-> tokens, verses |-> verses]

EmptyPage == Page(<<>>, <<>>, NoLemma, {}, <<>>)

\* G1 -> {G2, G3}, G2 -> {G4}: the graph of the crawler's tests.
SiteTree ==
  [n \in NumPool |->
     CASE n = 1 -> Page(<<2, 3>>, <<>>, "L1", {}, <<"v1">>)
       [] n = 2 -> Page(<<4>>, <<>>, "L2", {"L1"}, <<"v1", "v2", "v1">>)
       [] OTHER -> EmptyPage]

\* Cycles, a self reference, repeated citations and targets cited both as
\* "See n" and in a lexicon block.
SiteCycle ==
  [n \in NumPool |->
     CASE n = 1 -> Page(<<2, 3, 2>>, <<3, 1>>, "L1", {"L2"}, <<>>)
       [] n = 2 -> Page(<<1, 3>>, <<3, 3, 4>>, "L2", {"L1"}, <<"v2">>)
       [] n = 3 -> Page(<<3>>, <<12>>, NoLemma, {"L1", "L2"}, <<"v2">>)
       [] OTHER -> EmptyPage]

\* Ids whose digits start with the digits of another id.
SitePrefix ==
  [n \in NumPool |->
     CASE n = 12 -> Page(<<1>>, <<2>>, "L2", {}, <<"v1">>)
       [] n = 1  -> Page(<<>>, <<12, 2>>, "L1", {"L2"}, <<"v1">>)
       [] OTHER  -> EmptyPage]

Sites == {SiteTree, SiteCycle, SitePrefix}

Seeds == {Id("G", 1), Id("G", 12), Id("H", 1)}

FollowPool ==
  {<<>>, <<"see_also">>, <<"related_strongs">>, <<"see_also", "related_strongs">>,
   <<"related_strongs", "see_also", "topical">>}

\* Notes left under the root folder by earlier runs over the same site: a
\* full note or a placeholder (which exists only for an id that has a lemma).
PreIds == {Id("G", 1), Id("G", 2), Id("G", 12)}

PreNames(st) ==
  {f \in [id : PreIds, full : BOOLEAN] : f.full \/ st[f.id.n].lemma # NoLemma}

PreDoc(st, f) ==
  IF f.full THEN renderNew(parseStrongsPage(f.id, st[f.id.n]))
  ELSE placeholderNote(f.id, st[f.id.n].lemma)

PreVaults(st) ==
  {[f \in F |-> PreDoc(st, f)] :
     F \in {G \in SUBSET PreNames(st) : Cardinality(G) <= MaxPreexisting}}

\* Recipes that vary the traversal and keep lemma and scripture linking off.
TraversalRecipes ==
  [followEdges : FollowPool, linkTypes : {{"strongs"}},
   linkGreekHebrew : {FALSE}, lemmaAliasMode : {"primary"},
   maxDepth : 0..MaxDepthBound, maxNodes : 1..MaxNodesBound,
   skipExisting : BOOLEAN, noteTitlePattern : {"strong"}]

\* Recipes that vary what is written and follow both edge types one hop.
NoteRecipes ==
  [followEdges : {<<"see_also", "related_strongs">>},
   linkTypes : {{"strongs"}, {"strongs", "scripture"}},
   linkGreekHebrew : BOOLEAN, lemmaAliasMode : {"primary", "all"},
   maxDepth : {1}, maxNodes : 1..MaxNodesBound,
   skipExisting : BOOLEAN, noteTitlePattern : {"strong", "full"}]

\* ---------------------------------------------------------------- state
VARIABLES
  recipe,      \* the Recipe of the run
  rootStrong,  \* the seed id
  site,        \* the pages the source serves, by number
  vault,       \* the notes under the root folder: name -> header
  verseNotes,  \* the verse notes under the scripture folder
  verseCreates,\* the verse notes the run created, in order
  cache,       \* Fetcher.cache: the urls held
  pc,          \* where run stands
  q, seen, processed, res, lemmaIndex,   \* the locals of run
  cur,         \* the item being processed
  entry,       \* its parsed entry
  todo,        \* applyLemmaLinks: the lemmas still to alias
  vi,          \* the index of the next verse ref
  failures,    \* operations that have failed so far
  preexisting, \* the vault when run was called
  touched,     \* the notes of the root folder created or modified by the run
  fetchLog,    \* the calls of Fetcher.get: url, and whether a request went out
  upsertLog,   \* the ids Writer.upsert completed for, in order
  order,       \* the items that were processed, in order
  discovered,  \* the ids in the order they first entered the queue
  pending,     \* the operations run has called that have not settled
  wrecipe,     \* Writer: the recipe upsert is called with
  wentry,      \* Writer: the entry upsert is called with
  wfolder,     \* Writer: whether the root folder exists
  wdoc,        \* Writer: the text of the note at the entry's path
  wops,        \* Writer: the vault operations issued, in order
  whist,       \* Writer: the completed calls of upsert
  wcalls,      \* Writer: the calls of upsert so far
  now,         \* Fetcher: the clock, Date.now()
  rateLimitMs, \* Fetcher.rateLimitMs
  lastFetchAt, \* Fetcher.lastFetchAt
  fcache,      \* Fetcher.cache: url -> text
  fcalls,      \* Fetcher: the calls of get that have not returned yet
  gets,        \* Fetcher: the calls of get so far
  lastDone,    \* Fetcher: the clock when a request last ended, 0 for never
  lastReturn,  \* Fetcher: what the call of get that returned last gave
  seed,        \* the seed text handed to the normalization
  langHint,    \* the language hint, or "command" for normalizeSeedToStrong
  seedStrong,  \* the id the seed was normalized to
  seedAgain,   \* the id the text of seedStrong was normalized to
  cmd,         \* where the import command (or the normalization) stands
  notice,      \* the Notice shown last
  xstrong,     \* the extractor: the id it is called with
  xdoc,        \* the extractor: the raw document
  xentry       \* the extractor: the links of the entry returned

vars == <<recipe, rootStrong, site, vault, verseNotes, verseCreates, cache,
          pc, q, seen,
          processed, res, lemmaIndex, cur, entry, todo, vi, failures,
          preexisting, touched, fetchLog, upsertLog, order, discovered,
          pending, wrecipe, wentry, wfolder, wdoc, wops, whist, wcalls,
          now, rateLimitMs, lastFetchAt, fcache, fcalls, gets, lastDone,
          lastReturn, seed, langHint, seedStrong, seedAgain, cmd, notice,
          xstrong, xdoc, xentry>>

\* The state of the Writer taken on its own.
writerVars == <<wrecipe, wentry, wfolder, wdoc, wops, whist, wcalls>>

\* The state of the Fetcher taken on its own.
fetcherVars ==
  <<now, rateLimitMs, lastFetchAt, fcache, fcalls, gets, lastDone, lastReturn>>

\* The state of the import command but for the run it starts.
seedVars == <<seed, langHint, seedStrong, seedAgain, cmd, notice>>

\* The state of the extractor taken on its own.
extractVars == <<xstrong, xdoc, xentry>>

\* What no step of run changes.
inputs ==
  <<recipe, rootStrong, site, preexisting, writerVars, fetcherVars, seedVars,
    extractVars>>

NoItem == [strong |-> NoId, depth |-> 0]

EmptyIndex == [l \in Lemmas |-> NoId]

InitWith(recipes, seeds, preVerses) ==
  /\ recipe \in recipes
  /\ rootStrong \in seeds
  /\ site \in Sites
  /\ vault \in PreVaults(site)
  /\ preexisting = vault
  /\ verseNotes \in preVerses
  /\ verseCreates = <<>>
  /\ cache = {}
  /\ pc = "idle"
  /\ q = <<>>
  /\ seen = {}
  /\ processed = 0
  /\ res = [created |-> 0, updated |-> 0, skipped |-> 0, errors |-> <<>>]
  /\ lemmaIndex = EmptyIndex
  /\ cur = NoItem
  /\ entry = NoEntry
  /\ todo = {}
  /\ vi = 0
  /\ failures = 0
  /\ touched = {}
  /\ fetchLog = <<>>
  /\ upsertLog = <<>>
  /\ order = <<>>
  /\ discovered = <<>>
  /\ pending = {}

\* No note: a note that exists has at least one line.
NoDoc == <<>>

\* The Writer before any call made on it directly.
WriterIdle ==
  /\ wrecipe = [includeSections |-> <<>>, linkScripture |-> FALSE]
  /\ wentry = [blocks |-> [k \in Range(sectionOrder) |-> <<>>],
               scripture |-> <<>>]
  /\ wfolder = FALSE
  /\ wdoc = NoDoc
  /\ wops = <<>>
  /\ whist = <<>>
  /\ wcalls = 0

\* The rate limits a recipe can set, and the clock at construction: the
\* clock reads the time since 1970, far more than any rate limit.
MaxRateLimit == 2

StartTime == MaxRateLimit + 1

Urls == {"u1", "u2"}

NoText == "-"

\* No call of get has returned.
NoReturn == [url |-> "-", text |-> NoText, net |-> FALSE]

\* new Fetcher(rateLimitMs): nothing fetched, nothing cached.
FetcherNew ==
  /\ now = StartTime
  /\ lastFetchAt = 0
  /\ fcache = [u \in Urls |-> NoText]
  /\ fcalls = <<>>
  /\ gets = 0
  /\ lastDone = 0
  /\ lastReturn = NoReturn

FetcherIdle ==
  /\ FetcherNew
  /\ rateLimitMs = 0

\* No command invoked, nothing normalized.
SeedIdle ==
  /\ seed = <<>>
  /\ langHint = "command"
  /\ seedStrong = NoId
  /\ seedAgain = NoId
  /\ cmd = "off"
  /\ notice = ""

\* No entry returned.
NoLinks == [returned |-> FALSE, related_strongs |-> <<>>, scripture |-> <<>>]

\* The extractor not called.
ExtractIdle ==
  /\ xstrong = NoId
  /\ xdoc = [refs |-> <<>>, links |-> <<>>]
  /\ xentry = NoLinks

\* The crawler before any run, over an empty vault.
CrawlIdle ==
  /\ InitWith({CHOOSE r \in TraversalRecipes : TRUE}, {Id("G", 1)}, {{}})
  /\ site = SiteTree
  /\ vault = (CHOOSE v \in PreVaults(SiteTree) : TRUE)

Init ==
  /\ \/ InitWith(TraversalRecipes, Seeds, {{}})
     \/ InitWith(NoteRecipes, Seeds, {{}, {"v1"}})
  /\ WriterIdle
  /\ FetcherIdle
  /\ SeedIdle
  /\ ExtractIdle

\* ------------------------------------------------------------ Crawler.run
\* run calls an operation: a vault scan, a get, an upsert, a verse note.
StartOp(pend, op) == pend \cup {op}

\* A call that is never awaited.
SettleOpNever(pend, op) == pend

\* await: the operation has settled, fulfilled or rejected, before run
\* goes on.
SettleOp(pend, op) == pend \ {op}

\* run is entered: the result is zeroed and buildLemmaIndex starts.
RunStart ==
  /\ pc = "idle"
  /\ pc' = "index"
  /\ res' = [created |-> 0, updated |-> 0, skipped |-> 0, errors |-> <<>>]
  /\ pending' = StartOp(pending, "index")
  /\ UNCHANGED <<inputs, vault, verseNotes, verseCreates, cache, q, seen, processed,
                 lemmaIndex, cur, entry, todo, vi, failures, touched,
                 fetchLog, upsertLog, order, discovered>>

\* buildLemmaIndex: map.set(lemma, strong) for every note that has both, in
\* the order the vault lists the notes; a later note overwrites an earlier.
IndexCandidates(files) ==
  {m \in [Lemmas -> {files[f].strong : f \in DOMAIN files} \cup {NoId}] :
     \A l \in Lemmas :
       IF \E f \in DOMAIN files : files[f].lemma = l
       THEN \E f \in DOMAIN files : files[f].lemma = l /\ m[l] = files[f].strong
       ELSE m[l] = NoId}

BuildLemmaIndex ==
  /\ pc = "index"
  /\ lemmaIndex' \in IndexCandidates(vault)
  /\ seen' = {}
  /\ q' = <<[strong |-> rootStrong, depth |-> 0]>>
  /\ discovered' = <<rootStrong>>
  /\ processed' = 0
  /\ pc' = "loop"
  /\ pending' = SettleOp(pending, "index")
  /\ UNCHANGED <<inputs, vault, verseNotes, verseCreates, cache, res, cur, entry, todo, vi,
                 failures, touched, fetchLog, upsertLog, order>>

\* A vault.read of buildLemmaIndex fails: nothing catches it, run rejects.
BuildLemmaIndexFails ==
  /\ pc = "index"
  /\ DOMAIN vault # {}
  /\ failures < MaxFailures
  /\ failures' = failures + 1
  /\ pc' = "rejected"
  /\ pending' = SettleOp(pending, "index")
  /\ UNCHANGED <<inputs, vault, verseNotes, verseCreates, cache, q, seen, processed, res,
                 lemmaIndex, cur, entry, todo, vi, touched, fetchLog,
                 upsertLog, order, discovered>>

\* The loop condition fails: return res.
Return ==
  /\ pc = "loop"
  /\ ~LoopGuard(q, processed, recipe.maxNodes)
  /\ pc' = "done"
  /\ UNCHANGED <<inputs, pending, vault, verseNotes, verseCreates, cache, q, seen, processed, res,
                 lemmaIndex, cur, entry, todo, vi, failures, touched,
                 fetchLog, upsertLog, order, discovered>>

\* DequeueSeen that leaves the item in the queue.
DequeueSeenKeeps ==
  /\ pc = "loop"
  /\ LoopGuard(q, processed, recipe.maxNodes)
  /\ Head(q).strong \in seen
  /\ UNCHANGED vars

\* q.shift() gives an id already seen: continue.
DequeueSeen ==
  /\ pc = "loop"
  /\ LoopGuard(q, processed, recipe.maxNodes)
  /\ Head(q).strong \in seen
  /\ q' = Tail(q)
  /\ UNCHANGED <<inputs, pending, vault, verseNotes, verseCreates, cache, pc, seen, processed, res,
                 lemmaIndex, cur, entry, todo, vi, failures, touched,
                 fetchLog, upsertLog, order, discovered>>

Exists(files, strong) == findExistingByStrongIdFallback(files, strong) # {}

\* q.shift() gives a new id that has a note, and skipExisting is set.
DequeueSkip ==
  /\ pc = "loop"
  /\ LoopGuard(q, processed, recipe.maxNodes)
  /\ Head(q).strong \notin seen
  /\ Exists(vault, Head(q).strong) /\ recipe.skipExisting
  /\ q' = Tail(q)
  /\ seen' = MarkSeen(seen, Head(q).strong)
  /\ res' = CountSkipped(res)
  /\ processed' = processed + 1
  /\ order' = Append(order, Head(q))
  /\ UNCHANGED <<inputs, pending, vault, verseNotes, verseCreates, cache, pc, lemmaIndex, cur, entry,
                 todo, vi, failures, touched, fetchLog, upsertLog, discovered>>

\* q.shift() gives a new id to process: the try block starts with the fetch.
DequeueProcess ==
  /\ pc = "loop"
  /\ LoopGuard(q, processed, recipe.maxNodes)
  /\ Head(q).strong \notin seen
  /\ ~(Exists(vault, Head(q).strong) /\ recipe.skipExisting)
  /\ q' = Tail(q)
  /\ seen' = MarkSeen(seen, Head(q).strong)
  /\ cur' = Head(q)
  /\ pc' = "fetch"
  /\ pending' = StartOp(pending, "fetch")
  /\ UNCHANGED <<inputs, vault, verseNotes, verseCreates, cache, processed, res, lemmaIndex,
                 entry, todo, vi, failures, touched, fetchLog, upsertLog,
                 order, discovered>>

\* The catch block and the processed++ after it.
Catch ==
  /\ res' = RecordError(res, cur.strong)
  /\ processed' = processed + 1
  /\ order' = Append(order, cur)
  /\ failures' = failures + 1
  /\ pc' = "loop"
  /\ cur' = NoItem
  /\ entry' = NoEntry
  /\ todo' = {}
  /\ vi' = 0
  /\ pending' = SettleOp(pending, pc)

\* Fetcher.get(url, true): a cache hit, or a request that succeeds.
FetcherGet(url) ==
  /\ fetchLog' = Append(fetchLog, [url |-> url, net |-> url \notin cache])
  /\ cache' = cache \cup {url}

\* Fetcher.get(url, true): the request fails; only a request can fail.
FetcherGetFails(url) ==
  /\ url \notin cache
  /\ fetchLog' = Append(fetchLog, [url |-> url, net |-> TRUE])
  /\ cache' = cache

\* The page is fetched and parsed, the lemma index takes the entry's lemma
\* and applyLemmaLinks works out which aliases it has to ensure.
FetchPage ==
  /\ pc = "fetch"
  /\ FetcherGet(strongsUrl(cur.strong))
  /\ LET e   == parseStrongsPage(cur.strong, site[strongsUrl(cur.strong).n])
         idx == IF e.lemma # NoLemma
                THEN [lemmaIndex EXCEPT ![e.lemma] = e.strong] ELSE lemmaIndex
         work == IF recipe.linkGreekHebrew
                 THEN AliasWork(e, idx, recipe.lemmaAliasMode) ELSE {}
     IN  /\ entry' = e
         /\ lemmaIndex' = idx
         /\ todo' = work
         /\ pc' = IF work # {} THEN "link" ELSE "upsert"
  /\ pending' = StartOp(SettleOp(pending, "fetch"), pc')
  /\ UNCHANGED <<inputs, vault, verseNotes, verseCreates, q, seen, processed, res, cur, vi,
                 failures, touched, upsertLog, order, discovered>>

FetchFails ==
  /\ pc = "fetch"
  /\ failures < MaxFailures
  /\ FetcherGetFails(strongsUrl(cur.strong))
  /\ Catch
  /\ UNCHANGED <<inputs, vault, verseNotes, verseCreates, q, seen, lemmaIndex, touched,
                 upsertLog, discovered>>

\* vault.create(path, text)
Created(files, name, doc) ==
  [g \in DOMAIN files \cup {name} |-> IF g = name THEN doc ELSE files[g]]

\* ensureAliasForStrong(strong, lemma): a placeholder when no note contains
\* the id, else the alias is added to the first note the vault lists that
\* contains it, and the note is written only when its text changes.
ensureAliasForStrong(strong, lemma) ==
  LET hits == findExistingByStrongIdFallback(vault, strong)
      stub == [id |-> strong, full |-> FALSE]
  IN  IF hits = {}
      THEN /\ vault' = Created(vault, stub, placeholderNote(strong, lemma))
           /\ touched' = touched \cup {stub}
      ELSE \E f \in hits :
             LET updated == addAliasToFrontmatter(vault[f], lemma)
             IN  /\ vault' = [vault EXCEPT ![f] = updated]
                 /\ touched' = IF updated # vault[f] THEN touched \cup {f}
                               ELSE touched

\* One ensureAliasForStrong call of applyLemmaLinks.
AliasStep ==
  /\ pc = "link"
  /\ \E lemma \in todo :
       /\ ensureAliasForStrong(lemmaIndex[lemma], lemma)
       /\ todo' = todo \ {lemma}
       /\ pc' = IF todo = {lemma} THEN "upsert" ELSE "link"
  /\ pending' = StartOp(SettleOp(pending, "link"), pc')
  /\ UNCHANGED <<inputs, verseNotes, verseCreates, cache, q, seen, processed, res,
                 lemmaIndex, cur, entry, vi, failures, fetchLog, upsertLog,
                 order, discovered>>

\* A vault operation of ensureAliasForStrong fails.
AliasFails ==
  /\ pc = "link"
  /\ failures < MaxFailures
  /\ Catch
  /\ UNCHANGED <<inputs, vault, verseNotes, verseCreates, cache, q, seen, lemmaIndex,
                 touched, fetchLog, upsertLog, discovered>>

\* The end of the try block: the enqueue of the typed edges, and processed++.
NodeDone ==
  LET items == IF DepthAllows(cur.depth, recipe.maxDepth)
               THEN Targets(entry, recipe.followEdges, seen, cur.depth)
               ELSE <<>>
      ids   == [i \in 1..Len(items) |-> items[i].strong]
  IN  /\ q' = Enqueue(q, items)
      /\ discovered' = discovered \o Without(ids, Range(discovered))
      /\ processed' = processed + 1
      /\ order' = Append(order, cur)
      /\ pc' = "loop"
      /\ cur' = NoItem
      /\ entry' = NoEntry
      /\ todo' = {}
      /\ vi' = 0

HasVerseWork(e) ==
  "scripture" \in recipe.linkTypes /\ Len(e.links.scripture) > 0

\* Writer.upsert: merge into the note at the title's path, or create it.
upsert(e) ==
  LET name == buildTitle(e, recipe.noteTitlePattern)
  IN  /\ IF name \in DOMAIN vault
         THEN /\ vault' = vault
              /\ res' = [res EXCEPT !.updated = @ + 1]
         ELSE /\ vault' = Created(vault, name, renderNew(e))
              /\ res' = [res EXCEPT !.created = @ + 1]
      /\ touched' = touched \cup {name}
      /\ upsertLog' = Append(upsertLog, e.strong)

Upsert ==
  /\ pc = "upsert"
  /\ upsert(entry)
  /\ IF HasVerseWork(entry)
     THEN /\ pc' = "verse"
          /\ vi' = 1
          /\ UNCHANGED <<q, discovered, processed, order, cur, entry, todo>>
     ELSE NodeDone
  /\ pending' = IF HasVerseWork(entry)
                 THEN StartOp(SettleOp(pending, "upsert"), "verse")
                 ELSE SettleOp(pending, "upsert")
  /\ UNCHANGED <<inputs, verseNotes, verseCreates, cache, seen, lemmaIndex, failures,
                 fetchLog>>

\* A vault operation of Writer.upsert fails.
UpsertFails ==
  /\ pc = "upsert"
  /\ failures < MaxFailures
  /\ Catch
  /\ UNCHANGED <<inputs, vault, verseNotes, verseCreates, cache, q, seen, lemmaIndex,
                 touched, fetchLog, upsertLog, discovered>>
\* ensureScriptureNote: the note of the verse is looked up by its path.
VerseExistsNever(notes, ref) == FALSE

VerseExists(notes, ref) == ref \in notes

\* ensureScriptureNote for the next verse ref: nothing when the verse note
\* exists, else the verse page is fetched and the note created.
VerseStep ==
  /\ pc = "verse"
  /\ LET ref == entry.links.scripture[vi]
     IN  IF VerseExists(verseNotes, ref)
         THEN UNCHANGED <<verseNotes, verseCreates, cache, fetchLog>>
         ELSE /\ FetcherGet(nasbUrl(ref))
              /\ verseNotes' = verseNotes \cup {ref}
              /\ verseCreates' = Append(verseCreates, ref)
  /\ IF vi < Len(entry.links.scripture)
     THEN /\ vi' = vi + 1
          /\ UNCHANGED <<q, discovered, processed, order, pc, cur, entry, todo>>
     ELSE NodeDone
  /\ pending' = IF vi < Len(entry.links.scripture)
                 THEN StartOp(SettleOp(pending, "verse"), "verse")
                 ELSE SettleOp(pending, "verse")
  /\ UNCHANGED <<inputs, vault, seen, res, lemmaIndex, failures, touched,
                 upsertLog>>

\* ensureScriptureNote fails: at the folder check, at the request, or at
\* vault.create after the page was fetched.
VerseFails ==
  /\ pc = "verse"
  /\ failures < MaxFailures
  /\ ~VerseExists(verseNotes, entry.links.scripture[vi])
  /\ \/ UNCHANGED <<cache, fetchLog>>
     \/ FetcherGetFails(nasbUrl(entry.links.scripture[vi]))
     \/ FetcherGet(nasbUrl(entry.links.scripture[vi]))
  /\ Catch
  /\ UNCHANGED <<inputs, vault, verseNotes, verseCreates, q, seen, lemmaIndex, touched,
                 upsertLog, discovered>>

Next ==
  \/ RunStart
  \/ BuildLemmaIndex
  \/ BuildLemmaIndexFails
  \/ Return
  \/ DequeueSeen
  \/ DequeueSkip
  \/ DequeueProcess
  \/ FetchPage
  \/ FetchFails
  \/ AliasStep
  \/ AliasFails
  \/ Upsert
  \/ UpsertFails
  \/ VerseStep
  \/ VerseFails

Spec == Init /\ [][Next]_vars

TypeOK ==
  /\ pc \in {"idle", "index", "loop", "fetch", "link", "upsert", "verse",
             "done", "rejected"}
  /\ processed \in 0..(MaxNodesBound + 1)
  /\ failures \in 0..MaxFailures
  /\ seen \subseteq Range(discovered)

\* ------------------------------------------------------- derived values
Ids(items) == [i \in 1..Len(items) |-> items[i].strong]

ErrorSeq == [i \in 1..Len(res.errors) |-> res.errors[i].id]

ErrorIds == Range(ErrorSeq)

\* The ids whose Strong's page Fetcher.get was called for, in call order.
PageFetches == SelectSeq(fetchLog, LAMBDA c : c.url.kind = "strongs")

NoDuplicates(s) == \A i, j \in 1..Len(s) : s[i] = s[j] => i = j

\* The link graph of the site: the targets of an id over the followed types.
Successors(strong) ==
  Range(nextNodes(parseStrongsPage(strong, site[strong.n]), recipe.followEdges))

RECURSIVE WithinHops(_)
WithinHops(k) ==
  IF k = 0 THEN {rootStrong}
  ELSE LET R == WithinHops(k - 1)
       IN  R \cup UNION {Successors(x) : x \in R}

Reachable == WithinHops(recipe.maxDepth)

\* ----------------------------------------------------------------- claims

\* C1: the number of processed queue items never exceeds recipe.maxNodes, at
\* every point of the run and in the counters and the error list of the
\* result.
C1_ProcessedWithinMaxNodes ==
  /\ processed <= recipe.maxNodes
  /\ Len(order) = processed
  /\ res.created + res.updated + res.skipped <= recipe.maxNodes
  /\ Len(res.errors) <= recipe.maxNodes

\* The node budget ends a run that still has items queued.
C1_Witness ==
  /\ pc = "done"
  /\ recipe.maxNodes >= 2
  /\ processed = recipe.maxNodes
  /\ Len(q) > 0

\* C2: every item placed in the queue has a depth in 0..maxDepth; the seed is
\* the item of depth 0, targets are pushed at depth + 1 and only by a node
\* whose depth is below maxDepth, and with maxDepth = 0 only the seed is
\* processed.
C2_DepthWithinMaxDepth ==
  /\ [](/\ \A i \in 1..Len(q) :
             /\ q[i].depth \in 0..recipe.maxDepth
             /\ q[i].depth = 0 => q[i].strong = rootStrong
        /\ \A i \in 1..Len(order) : order[i].depth \in 0..recipe.maxDepth
        /\ recipe.maxDepth = 0 => \A i \in 1..Len(order) : order[i].strong = rootStrong)
  /\ [][Len(q') > Len(q) =>
          \/ pc = "index" /\ q' = <<[strong |-> rootStrong, depth |-> 0]>>
          \/ /\ cur.depth < recipe.maxDepth
             /\ SubSeq(q', 1, Len(q)) = q
             /\ \A i \in (Len(q) + 1)..Len(q') : q'[i].depth = cur.depth + 1]_vars

\* A node at depth maxDepth >= 1 that has followed links was written.
C2_Witness ==
  /\ pc = "done"
  /\ recipe.maxDepth >= 1
  /\ \E i \in 1..Len(order) :
       /\ order[i].depth = recipe.maxDepth
       /\ order[i].strong \in Range(upsertLog)
       /\ Successors(order[i].strong) \ Range(Ids(order)) # {}

\* C3: within one run the page of an id is fetched at most once, and no id is
\* processed twice, the ids that errored included.
C3_FetchedAtMostOnce ==
  /\ NoDuplicates(PageFetches)
  /\ NoDuplicates(Ids(order))
  /\ \A i \in 1..Len(PageFetches) :
       \E x \in Range(Ids(order)) \cup {cur.strong} : PageFetches[i].url = strongsUrl(x)

\* An id that errored is at the head of the queue a second time.
C3_Witness ==
  /\ pc = "loop"
  /\ LoopGuard(q, processed, recipe.maxNodes)
  /\ Head(q).strong \in ErrorIds
  /\ Len(PageFetches) >= 3

\* C4: a failure inside the try block of one id adds exactly one (id, message)
\* entry for that id, counts the item as processed and leaves the queue, the
\* visited set and the counters as they were, so the loop goes on with the
\* next item; the run ends only on an empty queue or a spent budget.
C4_ErrorIsolated ==
  /\ [](/\ NoDuplicates(ErrorSeq)
        /\ pc = "done" => (q = <<>> \/ processed = recipe.maxNodes))
  /\ [][(failures' > failures /\ pc # "index") =>
          /\ res' = [res EXCEPT !.errors = Append(@, [id |-> cur.strong, error |-> "message"])]
          /\ processed' = processed + 1
          /\ q' = q
          /\ seen' = seen
          /\ pc' = "loop"]_vars
  /\ [][res'.errors # res.errors => failures' > failures]_vars

\* A run with one error went on to write a later item.
C4_Witness ==
  /\ pc = "done"
  /\ Len(res.errors) = 1
  /\ \E i, j \in 1..Len(order) :
       /\ i < j
       /\ order[i].strong = res.errors[1].id
       /\ order[j].strong \in Range(upsertLog)

\* C5: whatever network or document-store operation fails, run completes by
\* returning the CrawlResult; no failure makes run reject.
C5_RunAlwaysReturns == pc # "rejected"

\* C6: with no pre-existing documents, no failing operation and maxNodes at
\* least the number of ids within maxDepth hops of the seed, a run fetches and
\* upserts exactly those ids, once each, and returns created = that number,
\* updated = 0, skipped = 0 and no errors.
C6_CreatesExactlyReachable ==
  (/\ pc = "done"
   /\ DOMAIN preexisting = {}
   /\ failures = 0
   /\ recipe.maxNodes >= Cardinality(Reachable))
  => /\ {PageFetches[i].url : i \in 1..Len(PageFetches)} = {strongsUrl(x) : x \in Reachable}
     /\ Len(PageFetches) = Cardinality(Reachable)
     /\ Range(upsertLog) = Reachable
     /\ Len(upsertLog) = Cardinality(Reachable)
     /\ res = [created |-> Cardinality(Reachable), updated |-> 0,
               skipped |-> 0, errors |-> <<>>]

\* C7: ids are processed, and their notes upserted, in the order they first
\* entered the queue, so the depths of the processed items never decrease,
\* and a run ends having processed the first maxNodes discovered ids, or all
\* of them when fewer.
C7_FifoOrder ==
  /\ \A i, j \in 1..Len(order) : i < j => order[i].depth <= order[j].depth
  /\ Len(order) <= Len(discovered)
  /\ Ids(order) = SubSeq(discovered, 1, Len(order))
  /\ upsertLog = SelectSeq(discovered, LAMBDA x : x \in Range(upsertLog))
  /\ pc = "done" => Len(order) = Min(recipe.maxNodes, Len(discovered))

\* G1 -> {G2, G3}, G2 -> {G4} with maxDepth 1 and maxNodes 2: G1 then G2 are
\* processed, G3 is left in the queue and G4 never enters it.
C7_Witness ==
  /\ pc = "done"
  /\ site = SiteTree
  /\ rootStrong = Id("G", 1)
  /\ recipe.maxDepth = 1
  /\ recipe.maxNodes = 2
  /\ upsertLog = <<Id("G", 1), Id("G", 2)>>
  /\ Ids(q) = <<Id("G", 3)>>
  /\ Id("G", 4) \notin Range(discovered)

\* C8: a dequeued, unvisited id that has a note, with skipExisting set, adds
\* one to skipped and to the processed count and nothing else: no fetch, no
\* write, no enqueue.  A run whose seed has a note ends with skipped = 1,
\* created = updated = 0 and no request.
C8_SkipTouchesNothing ==
  /\ [][(/\ pc = "loop"
         /\ LoopGuard(q, processed, recipe.maxNodes)
         /\ Head(q).strong \notin seen
         /\ Exists(vault, Head(q).strong)
         /\ recipe.skipExisting)
        => /\ res' = [res EXCEPT !.skipped = @ + 1]
           /\ processed' = processed + 1
           /\ q' = Tail(q)
           /\ <<vault, verseNotes, touched, fetchLog, upsertLog, cache>>' =
                <<vault, verseNotes, touched, fetchLog, upsertLog, cache>>]_vars
  /\ []((pc = "done" /\ recipe.skipExisting /\ Exists(preexisting, rootStrong))
        => /\ res = [created |-> 0, updated |-> 0, skipped |-> 1, errors |-> <<>>]
           /\ fetchLog = <<>>
           /\ vault = preexisting
           /\ touched = {})

\* A later item of a run was skipped after the seed was written.
C8_Witness ==
  /\ pc = "done"
  /\ recipe.skipExisting
  /\ res.skipped = 1
  /\ res.created = 1
  /\ Len(order) = 2
  /\ Exists(preexisting, order[2].strong)

\* C9: with skipExisting on, no note that existed before the run is refetched,
\* overwritten or otherwise modified by the run.
C9_ExistingNotesUntouched ==
  recipe.skipExisting =>
    \A f \in DOMAIN preexisting :
      /\ f \notin touched
      /\ vault[f] = preexisting[f]
      /\ \A i \in 1..Len(PageFetches) : PageFetches[i].url # strongsUrl(f.id)

\* C10: the number of notes created or modified under the root folder during
\* one run never exceeds recipe.maxNodes.
C10_WritesWithinMaxNodes == Cardinality(touched) <= recipe.maxNodes

\* ====================================================== Writer.upsert
\* The Writer on its own: one entry and one recipe, a note path that is
\* free or holds a note written earlier, and calls of upsert on it.
MaxUpserts == 2

Sections == Range(sectionOrder)

\* Blocks an extractor can hand over: none, plain text, text naming a
\* verse, text with blank lines around it, text with a "## " line in it.
WriterBlocks ==
  {<<>>, <<Text("t")>>, <<Text("John 3:16")>>, <<Blank, Text("t"), Blank>>,
   <<Text("t"), Heading("Usage")>>}

WriterEntries ==
  [blocks : [Sections -> WriterBlocks], scripture : {<<>>, <<"John 3:16">>}]

WriterRecipes ==
  [includeSections : {<<>>, <<"lexical_summary">>, <<"helps">>,
                      <<"lexical_summary", "helps">>,
                      <<"helps", "lexical_summary">>},
   linkScripture : BOOLEAN]

\* A note an earlier import wrote with both sections.
OldNote ==
  renderNewText([blocks |-> [k \in Sections |-> <<Text("old")>>],
                 scripture |-> <<>>],
                [includeSections |-> sectionOrder, linkScripture |-> FALSE])

\* A note its owner rewrote: no section headings, own text after the
\* blocks, one block ended by the next marker and one by the end of file.
EditedNote ==
  yamlHeader \o
  <<Text("# title"), Marker("lexical_summary"), Text("old"), Text("mine"),
    Marker("helps"), Text("old"), Text("mine")>>

\* The note of the upsert test: it ends right after the marker.
TestNote == <<Heading("Lexical Summary"), Marker("lexical_summary"), Blank>>

\* A note without any marker.
PlainNote == yamlHeader \o <<Text("mine"), Heading("Mine"), Text("mine")>>

ExistingDocs == {OldNote, EditedNote, TestNote, PlainNote}

\* The crawler and the other parts stay as constructed.
WriterInit ==
  /\ CrawlIdle
  /\ FetcherIdle
  /\ SeedIdle
  /\ ExtractIdle
  /\ wrecipe \in WriterRecipes
  /\ wentry \in WriterEntries
  /\ wdoc \in {NoDoc} \cup ExistingDocs
  /\ wfolder \in (IF wdoc = NoDoc THEN BOOLEAN ELSE {TRUE})
  /\ wops = <<>>
  /\ whist = <<>>
  /\ wcalls = 0

crawlVars ==
  <<recipe, rootStrong, site, vault, verseNotes, verseCreates, cache, pc, q,
    seen, processed, res, lemmaIndex, cur, entry, todo, vi, failures,
    preexisting, touched, fetchLog, upsertLog, order, discovered, pending>>

\* Writer.upsert runs to its end: ensureFolder, then the merge into the
\* note at the path when there is one, else the creation of the note.
WriterUpsert ==
  /\ wcalls < MaxUpserts
  /\ LET existing == wdoc # NoDoc
         after == IF existing THEN mergeIntoFile(wdoc, wentry, wrecipe)
                  ELSE renderNewText(wentry, wrecipe)
         ops == ensureFolder(wfolder)
                  \o (IF existing THEN <<"read", "modify">>
                      ELSE <<"create">>)
     IN  /\ wdoc' = after
         /\ wops' = wops \o ops
         /\ whist' = Append(whist, [before |-> wdoc, folder |-> wfolder,
                                    after |-> after, created |-> ~existing,
                                    ops |-> ops])
  /\ wfolder' = TRUE
  /\ wcalls' = wcalls + 1
  /\ UNCHANGED <<crawlVars, fetcherVars, seedVars, extractVars, wrecipe,
                 wentry>>

\* Writer.upsert rejects: the vault operation named by step fails, and
\* nothing after it is issued.  A failed operation changes nothing.
WriterUpsertFails ==
  /\ wcalls < MaxUpserts
  /\ \E step \in {"createFolder", "read", "modify", "create"} :
       /\ step = "createFolder" => ~wfolder
       /\ step \in {"read", "modify"} => wdoc # NoDoc
       /\ step = "create" => wdoc = NoDoc
       /\ wops' = wops \o
            (IF step = "createFolder" THEN <<step>>
             ELSE ensureFolder(wfolder) \o (IF step = "modify"
                                            THEN <<"read", step>>
                                            ELSE <<step>>))
       /\ wfolder' = (wfolder \/ step # "createFolder")
  /\ wcalls' = wcalls + 1
  /\ UNCHANGED <<crawlVars, fetcherVars, seedVars, extractVars, wrecipe,
                 wentry, wdoc, whist>>

WriterNext ==
  \/ WriterUpsert
  \/ WriterUpsertFails

SpecWriter == WriterInit /\ [][WriterNext]_vars

\* The times op occurs in ops.
Count(ops, op) == Cardinality({i \in 1..Len(ops) : ops[i] = op})

\* C11: a completed upsert reports created = false exactly when a note
\* was at the path, and then it issued one read and one modify and no
\* create and left the merge of the note; otherwise it issued one create,
\* of the full rendering, and no read or modify.  createFolder is issued,
\* and first, exactly when the folder did not exist.
C11_UpsertCreatesOrMerges ==
  \A i \in 1..Len(whist) :
    LET c == whist[i]
    IN  /\ c.created = (c.before = NoDoc)
        /\ ~c.created =>
             /\ Count(c.ops, "read") = 1
             /\ Count(c.ops, "modify") = 1
             /\ Count(c.ops, "create") = 0
             /\ c.after = mergeIntoFile(c.before, wentry, wrecipe)
        /\ c.created =>
             /\ Count(c.ops, "create") = 1
             /\ Count(c.ops, "read") = 0
             /\ Count(c.ops, "modify") = 0
             /\ c.after = renderNewText(wentry, wrecipe)
        /\ Count(c.ops, "createFolder") = (IF c.folder THEN 0 ELSE 1)
        /\ ~c.folder => c.ops[1] = "createFolder"

\* A note was created in a folder that had to be created, and the next
\* call merged into it.
C11_Witness ==
  /\ Len(whist) = 2
  /\ whist[1].created /\ ~whist[1].folder
  /\ ~whist[2].created /\ whist[2].folder

RECURSIVE BlockText(_)
\* The text of a block: the lines without the blank lines and the rule
\* that close a rendered section.
BlockText(lines) ==
  IF lines = <<>> THEN <<>>
  ELSE IF lines[Len(lines)] \in {Blank, Rule}
       THEN BlockText(SubSeq(lines, 1, Len(lines) - 1))
       ELSE trim(lines)

\* The block a note holds for a section: the text after the section's
\* marker, up to the line its span ends before.
SectionBlock(doc, key) ==
  LET idx == MarkerAt(doc, key)
  IN  IF idx = 0 THEN <<>>
      ELSE BlockText(SubSeq(doc, idx + 1, SpanEnd(doc, idx) - 1))

\* C12: when upsert created the note and is called again with the same
\* entry and recipe, every enabled section's block in the note reads as
\* it did after the first call.
C12_ReupsertKeepsBlocks ==
  \A i, j \in 1..Len(whist) :
    (i < j /\ whist[i].created) =>
      \A k \in Range(wrecipe.includeSections) :
        SectionBlock(whist[j].after, k) = SectionBlock(whist[i].after, k)

\* The same, for the calls in which renderNew has nothing to linkify.
C12_HoldsWithoutLinkify ==
  (~wrecipe.linkScripture \/ wentry.scripture = <<>>)
    => C12_ReupsertKeepsBlocks

\* The first line after line idx of doc that is a heading or a marker;
\* one past the last line when there is none.
BoundaryAfter(doc, idx) ==
  IF \E j \in (idx + 1)..Len(doc) : doc[j].kind # "text"
  THEN CHOOSE j \in (idx + 1)..Len(doc) :
         /\ doc[j].kind # "text"
         /\ \A k \in (idx + 1)..(j - 1) : doc[k].kind = "text"
  ELSE Len(doc) + 1

RECURSIVE FrameKept(_, _, _)
\* after is before with nothing changed but the text between the first
\* marker of a section of keys and the boundary that follows it: the
\* text up to and including the marker is kept, and so is, up to the next
\* such marker and from its boundary on, the text from the boundary on.
FrameKept(after, before, keys) ==
  LET present == {k \in keys : \E i \in 1..Len(before) : before[i] = Marker(k)}
  IN  IF present = {} THEN after = before
      ELSE LET first == CHOOSE i \in 1..Len(before) :
                          /\ \E k \in present : before[i] = Marker(k)
                          /\ \A j \in 1..(i - 1) :
                               \A k \in present : before[j] # Marker(k)
               end == BoundaryAfter(before, first)
           IN  /\ Len(after) >= first
               /\ SubSeq(after, 1, first) = SubSeq(before, 1, first)
               /\ \E p \in (first + 1)..(Len(after) + 1) :
                    FrameKept(SubSeq(after, p, Len(after)),
                              SubSeq(before, end, Len(before)),
                              present \ {before[first].v})

\* C13: a merge leaves the note as it was outside the blocks of the
\* enabled sections whose marker the note holds: the header, the text up
\* to and including each such marker and the text from the block's end
\* boundary on are the same lines, and a note without a section's marker
\* is left whole for that section.
C13_MergeKeepsFrame ==
  \A i \in 1..Len(whist) :
    ~whist[i].created =>
      FrameKept(whist[i].after, whist[i].before,
                Range(wrecipe.includeSections))

\* A merge completed into a note that holds the marker of one enabled
\* section and lacks the marker of another, and changed the note.
C13_Witness ==
  \E i \in 1..Len(whist) :
    /\ ~whist[i].created
    /\ whist[i].after # whist[i].before
    /\ \E k1, k2 \in Range(wrecipe.includeSections) :
         /\ MarkerAt(whist[i].before, k1) # 0
         /\ MarkerAt(whist[i].before, k2) = 0

\* ========================================================= Fetcher.get
\* The Fetcher on its own, against a clock: calls of get, which may
\* overlap, the timer of rateLimit, and the requests ending.
MaxGets == 2

MaxTicks == 3

Texts == {"a", "b"}

FetcherInit ==
  /\ CrawlIdle
  /\ WriterIdle
  /\ SeedIdle
  /\ ExtractIdle
  /\ FetcherNew
  /\ rateLimitMs \in 0..MaxRateLimit

notFetcher == <<crawlVars, writerVars, seedVars, extractVars>>

\* What get finds in the cache: nothing when the caller passes useCache
\* false.
cacheLookupNever(c, url, useCache) == NoText

cacheLookup(c, url, useCache) == IF useCache THEN c[url] ELSE NoText

\* The stamp rateLimit leaves: the clock at the end of rateLimit, before
\* the request is made.
StampAfterWait(clock) == clock

\* fcalls without its i-th call.
Drop(calls, i) == SubSeq(calls, 1, i - 1) \o SubSeq(calls, i + 1, Len(calls))

\* The time rateLimit sleeps for: rateLimitMs - delta.
WaitForNothing(limit, delta) == 0

WaitFor(limit, delta) == limit - delta

\* The calls in flight once another call has joined them.
Joined(calls) == [i \in 1..Len(calls) |-> [calls[i] EXCEPT !.seq = FALSE]]

\* get is called.  A cache hit returns at once.  Otherwise rateLimit
\* runs: when the last stamp is less than rateLimitMs old it sets its
\* timer, else it stamps the clock and the request goes out.
FetcherCall(url, useCache) ==
  /\ gets < MaxGets
  /\ gets' = gets + 1
  /\ LET hit == cacheLookup(fcache, url, useCache)
         delta == now - lastFetchAt
     IN  IF hit # NoText
         THEN /\ lastReturn' = [url |-> url, text |-> hit, net |-> FALSE]
              /\ UNCHANGED <<lastFetchAt, fcalls>>
         ELSE IF delta < rateLimitMs
         THEN /\ fcalls' = Append(Joined(fcalls),
                             [url |-> url, pc |-> "waiting", called |-> now,
                              wake |-> now + WaitFor(rateLimitMs, delta),
                              limit |-> rateLimitMs, seq |-> fcalls = <<>>])
              /\ UNCHANGED <<lastFetchAt, lastReturn>>
         ELSE /\ fcalls' = Append(Joined(fcalls),
                             [url |-> url, pc |-> "requesting",
                              called |-> now, wake |-> 0,
                              limit |-> rateLimitMs, seq |-> fcalls = <<>>])
              /\ lastFetchAt' = StampAfterWait(now)
              /\ UNCHANGED lastReturn
  /\ UNCHANGED <<notFetcher, now, rateLimitMs, fcache, lastDone>>

\* The timer of rateLimit fires: the clock is stamped and the request
\* goes out.
FetcherWake(i) ==
  /\ fcalls[i].pc = "waiting"
  /\ now >= fcalls[i].wake
  /\ fcalls' = [fcalls EXCEPT ![i].pc = "requesting", ![i].wake = 0]
  /\ lastFetchAt' = StampAfterWait(now)
  /\ UNCHANGED <<notFetcher, now, rateLimitMs, fcache, gets, lastDone,
                 lastReturn>>

\* requestUrl resolves: the text is cached and returned.
FetcherRespond(i, text) ==
  /\ fcalls[i].pc = "requesting"
  /\ fcache' = [fcache EXCEPT ![fcalls[i].url] = text]
  /\ lastReturn' = [url |-> fcalls[i].url, text |-> text, net |-> TRUE]
  /\ lastDone' = now
  /\ fcalls' = Drop(fcalls, i)
  /\ UNCHANGED <<notFetcher, now, rateLimitMs, lastFetchAt, gets>>

\* requestUrl rejects, and get with it.
FetcherRequestFails(i) ==
  /\ fcalls[i].pc = "requesting"
  /\ lastDone' = now
  /\ fcalls' = Drop(fcalls, i)
  /\ UNCHANGED <<notFetcher, now, rateLimitMs, lastFetchAt, fcache, gets,
                 lastReturn>>

FetcherSetRateLimit(ms) ==
  /\ ms # rateLimitMs
  /\ rateLimitMs' = ms
  /\ UNCHANGED <<notFetcher, now, lastFetchAt, fcache, fcalls, gets,
                 lastDone, lastReturn>>

\* Time passes.
Tick ==
  /\ now < StartTime + MaxTicks
  /\ now' = now + 1
  /\ UNCHANGED <<notFetcher, rateLimitMs, lastFetchAt, fcache, fcalls, gets,
                 lastDone, lastReturn>>

FetcherNext ==
  \/ \E url \in Urls, useCache \in BOOLEAN : FetcherCall(url, useCache)
  \/ \E i \in 1..Len(fcalls) : FetcherWake(i)
  \/ \E i \in 1..Len(fcalls), text \in Texts : FetcherRespond(i, text)
  \/ \E i \in 1..Len(fcalls) : FetcherRequestFails(i)
  \/ \E ms \in 0..MaxRateLimit : FetcherSetRateLimit(ms)
  \/ Tick

SpecFetcher == FetcherInit /\ [][FetcherNext]_vars

\* C14: once a get has succeeded for a url its text stays cached, and a
\* later get(url, true) returns the cached text in the same step: no
\* timer is set, no request goes out, and lastFetchAt and the cache stay
\* as they are.  No cache entry is ever removed.
C14_CacheHitIsFree ==
  [][/\ \A u \in Urls :
          /\ fcache[u] # NoText => fcache'[u] # NoText
          /\ (fcache[u] # NoText /\ FetcherCall(u, TRUE)) =>
               /\ lastReturn' = [url |-> u, text |-> fcache[u], net |-> FALSE]
               /\ fcalls' = fcalls
               /\ lastFetchAt' = lastFetchAt
               /\ fcache' = fcache
               /\ now' = now
     /\ \A i \in 1..Len(fcalls), t \in Texts :
          FetcherRespond(i, t) => fcache'[fcalls[i].url] = t]_vars

\* A get answered from the network, and the last call was answered from
\* the cache with that text.
C14_Witness ==
  /\ gets = 2
  /\ fcalls = <<>>
  /\ lastFetchAt # 0
  /\ ~lastReturn.net
  /\ lastReturn.text # NoText
  /\ lastReturn.text = fcache[lastReturn.url]

\* A request goes out in this step for a call made when no other call
\* was pending and after the last request had ended.
StartsAfterEnd ==
  /\ lastDone # 0
  /\ \E i \in 1..Len(fcalls') :
       /\ fcalls'[i].pc = "requesting"
       /\ fcalls'[i].called >= lastDone
       /\ Len(fcalls') = 1
       /\ (i > Len(fcalls) \/ fcalls[i].pc = "waiting")

\* C15: a request goes out no earlier than rateLimitMs after the request
\* before it ended.
C15_StartsAfterCompletion ==
  [][StartsAfterEnd => now >= lastDone + rateLimitMs]_vars

\* ================================================== seed normalization
\* The normalization on its own: a seed text is normalized, by the import
\* command or by normalizeStrongId with or without a language hint, and
\* the text of the id it gave is normalized again.
DigitRuns ==
  {<<"1">>, <<"1", "2">>, <<"0">>, <<"0", "1", "2">>, <<"2", "1", "9", "8">>,
   <<"1", "2", "3", "4", "5">>, <<"1", "2", "3", "4", "5", "6">>,
   <<"0", "0", "1", "2", "3", "4", "5">>}

\* G2198, g 02198, ...
IdSeeds ==
  {<<l>> \o sp \o d :
     l \in {"G", "g", "H", "h"}, sp \in {<<>>, <<" ">>}, d \in DigitRuns}

\* https://biblehub.com/strongs/greek/2198.htm, biblehub.com/hebrew/12.htm
UrlSeeds ==
  {pre \o Host \o dir \o lang \o <<"/">> \o d \o Htm :
     pre \in {<<>>, Https}, dir \in {<<>>, StrongsDir},
     lang \in {Greek, Hebrew}, d \in DigitRuns}

\* Texts of no accepted shape, and ids inside other text.
OtherSeeds ==
  {<<>>, <<"x">>, <<"x", "G", "1">>, <<"G", "1", "x">>,
   <<" ", "G", "1", "2", " ">>, <<"s", "e", "e", " ", "h", "1">>,
   Host \o StrongsDir \o Greek \o <<"/", "1", "2">>}

SeedPool == IdSeeds \cup DigitRuns \cup UrlSeeds \cup OtherSeeds

SeedInit ==
  /\ CrawlIdle
  /\ WriterIdle
  /\ FetcherIdle
  /\ ExtractIdle
  /\ seed \in SeedPool
  /\ langHint \in {"command", "none", "greek", "hebrew"}
  /\ seedStrong = NoId
  /\ seedAgain = NoId
  /\ cmd = "ready"
  /\ notice = ""

notSeed == <<crawlVars, writerVars, fetcherVars, extractVars>>

\* The normalization under way.
Normalize(text) ==
  IF langHint = "command" THEN normalizeSeedToStrong(text)
  ELSE normalizeStrongId(text, langHint)

SeedNormalize ==
  /\ cmd = "ready"
  /\ seedStrong' = Normalize(seed)
  /\ cmd' = "normalized"
  /\ UNCHANGED <<notSeed, seed, langHint, seedAgain, notice>>

SeedNormalizeAgain ==
  /\ cmd = "normalized"
  /\ seedStrong # NoId
  /\ seedAgain' = Normalize(FormatId(seedStrong))
  /\ cmd' = "renormalized"
  /\ UNCHANGED <<notSeed, seed, langHint, seedStrong, notice>>

SeedNext ==
  \/ SeedNormalize
  \/ SeedNormalizeAgain

SpecSeed == SeedInit /\ [][SeedNext]_vars

\* C16: the id a seed is normalized to is normalized to itself.
C16_NormalizeIdempotent ==
  cmd = "renormalized" => seedAgain = seedStrong

\* The same for normalizeStrongId alone, which takes no more than five
\* digits whatever the shape.
C16_HoldsForNormalizeStrongId ==
  (cmd = "renormalized" /\ langHint # "command") => seedAgain = seedStrong

\* =================================================== the import command
\* The command callback: the seed is taken, normalized, and either turned
\* down with a Notice or handed to Crawler.run, which then runs.
CommandSeeds ==
  {<<>>,
   <<"1">>, <<"g", " ", "0", "1", "2">>,
   Https \o Host \o StrongsDir \o Hebrew \o <<"/", "1">> \o Htm,
   <<"x">>, <<"G", "1", "x">>, <<"1", "2", "3", "4", "5", "6">>,
   Host \o StrongsDir \o Greek \o <<"/", "x">> \o Htm}

CommandInit ==
  /\ \/ InitWith(TraversalRecipes, {NoId}, {{}})
     \/ InitWith(NoteRecipes, {NoId}, {{}, {"v1"}})
  /\ WriterIdle
  /\ FetcherIdle
  /\ ExtractIdle
  /\ seed \in CommandSeeds
  /\ langHint = "command"
  /\ seedStrong = NoId
  /\ seedAgain = NoId
  /\ cmd = "ready"
  /\ notice = ""

\* if (!strong): the seed is turned down.
SeedRejectedNever(strong) == FALSE

SeedRejected(strong) == strong = NoId

\* The callback up to its return or to the call of crawler.run.
CommandImport ==
  /\ cmd = "ready"
  /\ IF seed = <<>>
     THEN /\ cmd' = "returned"
          /\ UNCHANGED <<seedStrong, notice, rootStrong>>
     ELSE /\ seedStrong' = normalizeSeedToStrong(seed)
          /\ IF SeedRejected(seedStrong')
             THEN /\ notice' = "Could not parse Strong's ID"
                  /\ cmd' = "rejected"
                  /\ UNCHANGED rootStrong
             ELSE /\ notice' = "Importing"
                  /\ cmd' = "importing"
                  /\ rootStrong' = seedStrong'
  /\ UNCHANGED <<recipe, site, vault, verseNotes, verseCreates, cache, pc, q,
                 seen, processed, res, lemmaIndex, cur, entry, todo, vi, failures,
                 preexisting, touched, fetchLog, upsertLog, order, discovered,
                 pending, writerVars, fetcherVars, extractVars, seed, langHint,
                 seedAgain>>

\* A step of the run the command started.
Importing(step) == cmd = "importing" /\ step

CommandNext ==
  \/ CommandImport
  \/ Importing(RunStart)
  \/ Importing(BuildLemmaIndex)
  \/ Importing(BuildLemmaIndexFails)
  \/ Importing(Return)
  \/ Importing(DequeueSeen)
  \/ Importing(DequeueSkip)
  \/ Importing(DequeueProcess)
  \/ Importing(FetchPage)
  \/ Importing(FetchFails)
  \/ Importing(AliasStep)
  \/ Importing(AliasFails)
  \/ Importing(Upsert)
  \/ Importing(UpsertFails)
  \/ Importing(VerseStep)
  \/ Importing(VerseFails)

SpecCommand == CommandInit /\ [][CommandNext]_vars

\* C17: once the callback has run on a seed that normalized to no id, the
\* parse failure has been shown and nothing was started: run was not
\* entered, no call of Fetcher.get was made and the vault is as it was.
C17_RejectedSeedStartsNothing ==
  (cmd # "ready" /\ seed # <<>> /\ seedStrong = NoId) =>
    /\ cmd = "rejected"
    /\ notice = "Could not parse Strong's ID"
    /\ pc = "idle"
    /\ fetchLog = <<>>
    /\ cache = {}
    /\ vault = preexisting
    /\ touched = {}
    /\ upsertLog = <<>>

\* A seed with too many digits was turned down over a vault with notes.
C17_Witness ==
  /\ cmd = "rejected"
  /\ seed = <<"1", "2", "3", "4", "5", "6">>
  /\ DOMAIN vault # {}

\* ======================================================== verse notes
\* The calls of Fetcher.get for the page of a verse.
VerseFetches(log, verse) ==
  SelectSeq(log, LAMBDA c : c.url = nasbUrl(verse))

\* C18: a run creates at most one note per verse; no verse note is ever
\* removed or created again, and the step of ensureScriptureNote on a
\* verse whose note exists creates nothing and calls no Fetcher.get.
C18_OneNotePerVerse ==
  /\ [](NoDuplicates(verseCreates) /\ Range(verseCreates) \subseteq verseNotes)
  /\ [][/\ verseNotes \subseteq verseNotes'
        /\ verseCreates' # verseCreates =>
             /\ Len(verseCreates') = Len(verseCreates) + 1
             /\ verseCreates'[Len(verseCreates')] \notin verseNotes
        /\ (pc = "verse" /\ entry.links.scripture[vi] \in verseNotes) =>
             /\ verseNotes' = verseNotes
             /\ verseCreates' = verseCreates
             /\ fetchLog' = fetchLog]_vars

\* Two entries that cite the same verse were written without a failure:
\* the verse has one note, created for the first entry with one call of
\* Fetcher.get, and the second entry created the note of another verse.
C18_Witness ==
  /\ verseCreates = <<"v1", "v2">>
  /\ upsertLog = <<Id("G", 1), Id("G", 2)>>
  /\ failures = 0
  /\ "v1" \in Range(site[1].verses) \cap Range(site[2].verses)
  /\ Len(VerseFetches(fetchLog, "v1")) = 1

\* ======================================================= the extractor
\* parseStrongsPage on its own, as far as the links go: the raw document
\* is the numbers its helps, thayers and definition blocks mention, in
\* order, and the links its HTML holds, in order.
MaxRefs == 2

MaxLinks == 3

ExtractIds == {Id("G", 1), Id("G", 12), Id("H", 12)}

\* Numbers as the text writes them.
RefRuns == {<<"1">>, <<"1", "2">>, <<"0", "1", "2">>,
            <<"1", "2", "3", "4", "5", "6">>}

\* A link of the HTML: to a verse of the interlinear, with or without the
\* host, or to the same verse elsewhere on the site.
Link(form, slug, chapter, verse) ==
  [form |-> form, slug |-> slug, chapter |-> chapter, verse |-> verse]

LinkPool ==
  {Link("absolute", "john", <<"3">>, <<"1", "6">>),
   Link("relative", "john", <<"3">>, <<"1", "6">>),
   Link("relative", "john", <<"0", "3">>, <<"1", "6">>),
   Link("relative", "john", <<"3">>, <<"1">>),
   Link("relative", "1_john", <<"3">>, <<"1", "6">>),
   Link("nasb", "john", <<"3">>, <<"1", "6">>)}

SeqsUpTo(S, n) == UNION {[1..k -> S] : k \in 0..n}

ExtractInit ==
  /\ CrawlIdle
  /\ WriterIdle
  /\ FetcherIdle
  /\ SeedIdle
  /\ xstrong \in ExtractIds
  /\ xdoc \in [refs : SeqsUpTo(RefRuns, MaxRefs),
               links : SeqsUpTo(LinkPool, MaxLinks)]
  /\ xentry = NoLinks

RECURSIVE extractStrongRefs(_, _)
\* extractStrongRefs: every number of one to five digits in the text,
\* normalized with the language of the page.
extractStrongRefs(runs, lang) ==
  IF runs = <<>> THEN <<>>
  ELSE LET id == IF Len(Head(runs)) <= MaxDigits
                 THEN normalizeStrongId(Head(runs), lang)
                 ELSE NoId
       IN  (IF id # NoId THEN <<id>> ELSE <<>>)
             \o extractStrongRefs(Tail(runs), lang)

\* The related ids of the entry, the page's own id among them.
relatedStrongsAll(refs, strong) == uniq(refs)

\* uniq([...]).filter((id) => id !== strong)
relatedStrongs(refs, strong) == Without(uniq(refs), {strong})

\* The key of a verse as the text of its link gives it.
refKeyText(slug, chapter, verse) == <<slug, chapter, verse>>

\* The key extractScriptureRefsFromHtml keeps in seen.
refKey(slug, chapter, verse) == <<slug, parseInt(chapter), parseInt(verse)>>

RECURSIVE scanLinks(_, _)
\* The loop of extractScriptureRefsFromHtml over the matches of the
\* interlinear pattern, with the keys seen so far.
scanLinks(links, seenKeys) ==
  IF links = <<>> THEN <<>>
  ELSE LET m == Head(links)
           key == refKey(m.slug, m.chapter, m.verse)
       IN  IF m.form \notin {"absolute", "relative"} \/ key \in seenKeys
           THEN scanLinks(Tail(links), seenKeys)
           ELSE <<[slug |-> m.slug, chapter |-> parseInt(m.chapter),
                   verse |-> parseInt(m.verse)]>>
                  \o scanLinks(Tail(links), seenKeys \cup {key})

extractScriptureRefsFromHtml(links) == scanLinks(links, {})

\* parseStrongsPage returns the entry.
Extract ==
  /\ ~xentry.returned
  /\ xentry' =
       [returned |-> TRUE,
        related_strongs |->
          relatedStrongs(extractStrongRefs(xdoc.refs, langFromStrong(xstrong)),
                         xstrong),
        scripture |-> extractScriptureRefsFromHtml(xdoc.links)]
  /\ UNCHANGED <<crawlVars, writerVars, fetcherVars, seedVars, xstrong, xdoc>>

ExtractNext == Extract

SpecExtract == ExtractInit /\ [][ExtractNext]_vars

\* C19: the related ids of the entry returned for an id do not hold that
\* id.
C19_NotRelatedToItself ==
  xentry.returned => xstrong \notin Range(xentry.related_strongs)

\* The document mentions the number of the page's own id and another
\* number, and the entry returned has a related id.
C19_Witness ==
  /\ xentry.returned
  /\ \E i \in 1..Len(xdoc.refs) : parseInt(xdoc.refs[i]) = xstrong.n
  /\ xentry.related_strongs # <<>>

\* The verse a scripture ref of the entry stands for.
VerseOf(ref) == <<ref.slug, ref.chapter, ref.verse>>

\* C20: no two scripture refs of the entry returned stand for the same
\* (slug, chapter, verse).
C20_ScriptureRefsDistinct ==
  xentry.returned =>
    \A i, j \in 1..Len(xentry.scripture) :
      VerseOf(xentry.scripture[i]) = VerseOf(xentry.scripture[j]) => i = j

\* The document links one verse with the host, without it and with a
\* leading zero, and the entry returned has the one ref.
C20_Witness ==
  /\ xentry.returned
  /\ {xdoc.links[i] : i \in 1..Len(xdoc.links)} =
       {Link("absolute", "john", <<"3">>, <<"1", "6">>),
        Link("relative", "john", <<"3">>, <<"1", "6">>),
        Link("relative", "john", <<"0", "3">>, <<"1", "6">>)}
  /\ xentry.scripture = <<[slug |-> "john", chapter |-> 3, verse |-> 16]>>

\* ================================================ the run, further claims

\* C21: at the end of a run every processed item has exactly one outcome:
\* created + updated + skipped + the number of error entries is the number
\* of processed items, and no id counted as created or updated is in the
\* error list.
C21_OneOutcomePerItem ==
  pc = "done" =>
    /\ res.created + res.updated + res.skipped + Len(res.errors) = processed
    /\ Range(upsertLog) \cap ErrorIds = {}

\* C22: an id is counted as skipped only when a note of that same id is
\* under the root folder.
C22_SkippedOnlyForOwnNote ==
  [][res'.skipped > res.skipped =>
       \E f \in DOMAIN vault : f.id = Head(q).strong]_vars

\* The ids in the link lists of the entry for the followed edge types.
FollowedTargets(e, edgeTypes) ==
  UNION {Range(e.links[et]) : et \in Range(edgeTypes)}

\* C23: a node below maxDepth that completes its try block pushes, behind
\* what is queued, the ids of its link lists for the followed edge types
\* that are not in the visited set, each once, and nothing else.
C23_EnqueuesFollowedTargetsOnce ==
  [][(/\ pc \in {"upsert", "verse"}
      /\ pc' = "loop"
      /\ failures' = failures
      /\ cur.depth < recipe.maxDepth)
     => /\ SubSeq(q', 1, Len(q)) = q
        /\ LET pushed == Ids(SubSeq(q', Len(q) + 1, Len(q')))
           IN  /\ NoDuplicates(pushed)
               /\ Range(pushed) = FollowedTargets(entry, recipe.followEdges) \ seen]_vars

\* G1 cites G2 twice after "See", G3 both after "See" and in a block, and
\* itself in a block: with both edge types followed it has pushed G2 and
\* G3 once each.
C23_Witness ==
  /\ pc = "loop"
  /\ site = SiteCycle
  /\ rootStrong = Id("G", 1)
  /\ recipe.followEdges = <<"see_also", "related_strongs">>
  /\ recipe.maxDepth >= 1
  /\ Ids(order) = <<Id("G", 1)>>
  /\ upsertLog = <<Id("G", 1)>>
  /\ Ids(q) = <<Id("G", 2), Id("G", 3)>>

\* C27: a run over a root folder that held no notes ends with at most one
\* note for each id.
C27_OneNotePerId ==
  (pc = "done" /\ DOMAIN preexisting = {}) =>
    \A f, g \in DOMAIN vault : f.id = g.id => f = g

\* C30: every id placed in the queue has the language of the seed, and no
\* entry has topical ids.
C30_QueueKeepsLanguage ==
  /\ \A i \in 1..Len(q) : q[i].strong.lang = rootStrong.lang
  /\ \A i \in 1..Len(discovered) : discovered[i].lang = rootStrong.lang
  /\ entry.links.topical = <<>>

\* A run from a Hebrew seed has processed ids found after "See" and in a
\* block.
C30_Witness ==
  /\ pc = "done"
  /\ rootStrong.lang = "H"
  /\ site = SiteCycle
  /\ recipe.followEdges = <<"see_also", "related_strongs">>
  /\ Len(upsertLog) >= 3

\* C25: at any point of a run at most one operation it has called, a
\* request or a vault operation, has not settled, and none is left between
\* two items or after the run.
C25_OneOperationInFlight ==
  /\ Cardinality(pending) <= 1
  /\ pc \in {"idle", "loop", "done", "rejected"} => pending = {}

\* A verse note is being ensured after the page was fetched and the note
\* upserted, for the second item of the run.
C25_Witness ==
  /\ pending = {"verse"}
  /\ Len(upsertLog) = 2
  /\ Len(fetchLog) >= 2
  /\ vi = 2

\* ------------------------------------------------------ the run, fairly
\* The run under a scheduler that resumes it: every operation it awaits
\* settles, and the step that follows is taken.
FairRecipes ==
  {r \in TraversalRecipes :
     r.followEdges = <<"see_also", "related_strongs">> /\ r.maxDepth = MaxDepthBound}
  \cup {r \in NoteRecipes : r.linkGreekHebrew /\ "scripture" \in r.linkTypes}

FairInit ==
  /\ InitWith(FairRecipes, {Id("G", 1)}, {{}})
  /\ WriterIdle
  /\ FetcherIdle
  /\ SeedIdle
  /\ ExtractIdle

SpecFair == FairInit /\ [][Next]_vars /\ WF_vars(Next)

\* C29: once the loop of run is entered, run reaches done, with the queue
\* empty or the node budget spent.
C29_RunReachesDone ==
  /\ (pc = "loop") ~> (pc = "done")
  /\ [](pc = "done" => (q = <<>> \/ processed = recipe.maxNodes))

\* A run over a cyclic site has ended: G3 was pushed by G1 and again by
\* G2, processed once and discarded once, and G4 processed after it.
C29_Witness ==
  /\ pc = "done"
  /\ site = SiteCycle
  /\ rootStrong = Id("G", 1)
  /\ recipe.followEdges = <<"see_also", "related_strongs">>
  /\ recipe.maxDepth >= 2
  /\ Ids(order) = <<Id("G", 1), Id("G", 2), Id("G", 3), Id("G", 4)>>

\* ------------------------------------------------- the merge, repeated

\* C28: merging the same entry with the same recipe into a note a second
\* time leaves the text the first merge left.
C28_MergeIdempotent ==
  \A i, j \in 1..Len(whist) :
    (i < j /\ ~whist[i].created) => whist[j].after = whist[i].after

\* The same, for entries whose blocks hold no heading line.
C28_HoldsWithoutHeadingInBlock ==
  (\A k \in Sections : \A n \in 1..Len(wentry.blocks[k]) :
     wentry.blocks[k][n].kind = "text")
    => C28_MergeIdempotent

\* ------------------------------------------- the Fetcher, the spacing

\* The request of the i-th call in flight goes out in this step.
RequestStarts(i) ==
  /\ i \in 1..Len(fcalls')
  /\ fcalls'[i].pc = "requesting"
  /\ (i > Len(fcalls) \/ fcalls[i].pc = "waiting")

\* C24: when calls of get follow one another, a request goes out no
\* earlier than the request before it plus the rateLimitMs in force when
\* the later get was called.
C24_SequentialRequestsSpaced ==
  [][\A i \in 1..Len(fcalls') :
       (RequestStarts(i) /\ fcalls'[i].seq /\ lastFetchAt # 0)
         => /\ lastFetchAt' = now
            /\ now >= lastFetchAt + fcalls'[i].limit]_vars

\* A request has gone out for a get that was called after the request
\* before it had ended and that slept until the limit in force at the
\* call had passed, although setRateLimit changed the limit as it slept.
C24_Witness ==
  /\ gets = 2
  /\ Len(fcalls) = 1
  /\ fcalls[1].pc = "requesting"
  /\ fcalls[1].seq
  /\ lastDone # 0
  /\ fcalls[1].called >= lastDone
  /\ fcalls[1].limit = MaxRateLimit
  /\ rateLimitMs # fcalls[1].limit
  /\ fcalls[1].called < lastFetchAt

\* C26: whether or not calls of get overlap, at most one request is in
\* flight and a request goes out no earlier than the request before it
\* plus rateLimitMs.
C26_OverlappingRequestsSpaced ==
  /\ [](Cardinality({i \in 1..Len(fcalls) : fcalls[i].pc = "requesting"}) <= 1)
  /\ [][\A i \in 1..Len(fcalls') :
          (RequestStarts(i) /\ lastFetchAt # 0)
            => now >= lastFetchAt + fcalls'[i].limit]_vars

\* The spacing alone, without the requests in flight.
C26_SpacingAlone ==
  [][\A i \in 1..Len(fcalls') :
       (RequestStarts(i) /\ lastFetchAt # 0)
         => now >= lastFetchAt + fcalls'[i].limit]_vars

====
